---- MODULE Spec2Model ----
(***************************************************************************)
(* A model of cti-view: the CTI decoder (src/src/cti.rs) and the viewer's  *)
(* load path (src/src/main.rs).                                            *)
(*                                                                         *)
(* Three specifications share the module:                                  *)
(*   Spec     CTIDecoder::info and CTIDecoder::decode_file on one file,    *)
(*            decode_file unrolled into its steps (header, magic, index,   *)
(*            bpp, allocation, and per tile read / decompress / CRC /      *)
(*            inverse transform / blit row by row);                        *)
(*   SpecRct  rct_inverse_rgb8 and rct_inverse_rgb16 on one pixel buffer;  *)
(*   SpecApp  the viewer's App state under Open (load_cti) and the         *)
(*            toolbar handlers.                                            *)
(***************************************************************************)
EXTENDS Integers, Sequences, FiniteSets, TLC

VARIABLES
    \* ---- decoder (Spec) ----
    build,      \* "debug": arithmetic overflow panics; "release": it wraps
    file,       \* the file on disk: its size in bytes and its header bytes
    call,       \* which entry point runs: "info" or "decode_file"
    pc,         \* position inside the running call
    hdr,        \* CTIHeader once read_header returned
    total,      \* total_tiles (cti.rs:90)
    nidx,       \* number of TileIndex records read_indices returned
    bpp,        \* bytes per pixel (cti.rs:94)
    outLen,     \* out.len() (cti.rs:103)
    i,          \* the loop variable of `for (i, t) in indices.iter().enumerate()`
    compLen,    \* comp.len() of the tile in hand
    tileLen,    \* tile.len() of the tile in hand
    geo,        \* blit_tile's locals start_x, start_y, tile_w, tile_h
    row,        \* blit_tile's loop variable
    writes,     \* the row copies done into `out`, in program order
    done,       \* per stage, the tile indices that passed it
    result,     \* how the call ended
    \* ---- colour transform (SpecRct) ----
    rctKind, rctOrig, rctBuf, rctPc,
    \* ---- viewer (SpecApp) ----
    app,        \* the fields of App
    loads       \* the Open requests served: how many, and the last one

dvars == <<build, file, call, pc, hdr, total, nidx, bpp, outLen, i, compLen, tileLen,
           geo, row, writes, done, result>>
rvars == <<rctKind, rctOrig, rctBuf, rctPc>>
avars == <<app, loads>>
vars  == <<dvars, rvars, avars>>

-----------------------------------------------------------------------------
(* Unsigned machine integers.  TLC's integers are 32-bit signed, so a u32   *)
(* and the products of two u32 do not fit in them.  A natural number is     *)
(* therefore held as its little-endian base-256 digit string with no        *)
(* most-significant zero byte (<<>> is 0), which is also the byte order of  *)
(* every multi-byte field of the file.                                      *)

U32Bytes == 4

RECURSIVE Trim(_)
Trim(s) == IF s # <<>> /\ s[Len(s)] = 0 THEN Trim(SubSeq(s, 1, Len(s) - 1)) ELSE s

RECURSIVE Num(_)
Num(n) == IF n = 0 THEN <<>> ELSE <<n % 256>> \o Num(n \div 256)

RECURSIVE Val(_)
Val(s) == IF s = <<>> THEN 0 ELSE Head(s) + 256 * Val(Tail(s))

\* s denotes a value TLC's integers can hold (below 2^24)
Small(s) == Len(s) <= 3

Digit(s, k) == IF k <= Len(s) THEN s[k] ELSE 0

RECURSIVE AddCarry(_, _, _)
AddCarry(a, b, c) ==
    IF a = <<>> /\ b = <<>>
    THEN IF c = 0 THEN <<>> ELSE <<c>>
    ELSE LET t == Digit(a, 1) + Digit(b, 1) + c
         IN  <<t % 256>> \o AddCarry(IF a = <<>> THEN a ELSE Tail(a),
                                     IF b = <<>> THEN b ELSE Tail(b),
                                     t \div 256)

NAdd(a, b) == Trim(AddCarry(a, b, 0))

RECURSIVE MulDigit(_, _, _)
MulDigit(a, d, c) ==
    IF a = <<>>
    THEN IF c = 0 THEN <<>> ELSE <<c>>
    ELSE LET t == Head(a) * d + c
         IN  <<t % 256>> \o MulDigit(Tail(a), d, t \div 256)

RECURSIVE MulLong(_, _)
MulLong(a, b) ==
    IF b = <<>> THEN <<>>
    ELSE AddCarry(MulDigit(a, Head(b), 0), <<0>> \o MulLong(a, Tail(b)), 0)

NMul(a, b) == Trim(MulLong(a, b))

RECURSIVE LessFrom(_, _, _)
LessFrom(a, b, k) ==
    IF k = 0 THEN FALSE
    ELSE IF Digit(a, k) # Digit(b, k) THEN Digit(a, k) < Digit(b, k)
    ELSE LessFrom(a, b, k - 1)

NLt(a, b) == LessFrom(a, b, IF Len(a) > Len(b) THEN Len(a) ELSE Len(b))
NLe(a, b) == ~NLt(b, a)
NMin(a, b) == IF NLt(b, a) THEN b ELSE a

RECURSIVE SubBorrow(_, _, _)
SubBorrow(a, b, c) ==
    IF a = <<>> THEN <<>>
    ELSE LET t == Head(a) - Digit(b, 1) - c
         IN  <<t % 256>> \o SubBorrow(Tail(a), IF b = <<>> THEN b ELSE Tail(b),
                                      IF t < 0 THEN 1 ELSE 0)

\* a - b for b <= a
NSub(a, b) == Trim(SubBorrow(a, b, 0))

\* 2^(8k)
Pow256(k) == [j \in 1..(k + 1) |-> IF j = k + 1 THEN 1 ELSE 0]

\* the low 32 bits of a natural number: what a wrapping u32 operation keeps
Wrap32(s) == Trim(SubSeq(s, 1, IF Len(s) < U32Bytes THEN Len(s) ELSE U32Bytes))
Fits32(s) == Len(s) <= U32Bytes

\* The u32 operators `*`, `+`, `-` of Rust: v is the wrapped result, ovf says
\* that the true result is not a u32 (debug builds panic there).
Mul32(a, b) == LET p == NMul(a, b) IN [v |-> Wrap32(p), ovf |-> ~Fits32(p)]
Add32(a, b) == LET p == NAdd(a, b) IN [v |-> Wrap32(p), ovf |-> ~Fits32(p)]
Sub32(a, b) ==
    IF NLe(b, a) THEN [v |-> NSub(a, b), ovf |-> FALSE]
    ELSE [v |-> NSub(NAdd(a, Pow256(U32Bytes)), b), ovf |-> TRUE]

-----------------------------------------------------------------------------
(* The file.  A file is its size in bytes and, when it is long enough to    *)
(* hold one, the header its first bytes parse to.  The contents of the      *)
(* index records and of the payloads are drawn when decode_file reads them. *)

ReservedBytes == 33
HeaderBytes == 4 + 2 + 2 + 4 + 4 + 4 + 4 + 4 + 1 + 1 + 1 + ReservedBytes
IndexRecordBytes == 8 + 4 + 4 + 4

MaxDim == 3
BigTile == 400
BigFile == 600

Two31 == <<0, 0, 0, 128>>

\* width, height, tile_size, tiles_x, tiles_y of the headers explored:
\* small images (consistent and inconsistent grids), images and tiles at the
\* edge of the u32 range, and the two scenarios spec.md section 8 names.
SmallGeoms ==
    [width : {Num(2), Num(MaxDim)}, height : {Num(1), Num(MaxDim)},
     tile_size : {Num(1), Num(2)},
     tiles_x : {Num(0), Num(1), Num(2)}, tiles_y : {Num(1), Num(2)}]
WideGeoms ==
    [width : {Num(2), NAdd(Two31, Num(1))}, height : {Num(1), Num(3)},
     tile_size : {Num(2), Two31},
     tiles_x : {Num(1), Num(65536)}, tiles_y : {Num(2), Num(65536)}]
ScenarioGeoms ==
    { [width |-> Num(10), height |-> Num(10), tile_size |-> Num(8),
       tiles_x |-> Num(2), tiles_y |-> Num(2)],
      [width |-> Num(4), height |-> Num(4), tile_size |-> Num(4),
       tiles_x |-> Num(1), tiles_y |-> Num(1)] }
Geoms == SmallGeoms \cup WideGeoms \cup ScenarioGeoms

Magics == {"CTI1", "JUNK"}
FlagBits == {0, 1}
ColorTypes == {1, 2, 3, 4, 5, 9}
Compressions == {0, 1, 10, 11, 99}

Header(m, f, g, ct, c) ==
    [magic |-> m, flags |-> f, width |-> g.width, height |-> g.height,
     tile_size |-> g.tile_size, tiles_x |-> g.tiles_x, tiles_y |-> g.tiles_y,
     color_type |-> ct, compression |-> c]

\* nothing but the magic of a header with a wrong magic is looked at, so
\* those headers are paired with the scenario geometries only
Headers ==
    { Header("CTI1", f, g, ct, c) :
        f \in FlagBits, g \in Geoms, ct \in ColorTypes, c \in Compressions }
    \cup
    { Header(m, f, g, ct, c) :
        m \in Magics \ {"CTI1"}, f \in FlagBits, g \in ScenarioGeoms,
        ct \in ColorTypes, c \in Compressions }

NoHeader == Header("", 0, CHOOSE g \in ScenarioGeoms : TRUE, 0, 0)

\* a file cut inside the header; a file that ends right after the reserved
\* bytes; a file with two index records and nothing else; a complete file
FileSizes == {HeaderBytes, HeaderBytes + 2 * IndexRecordBytes, BigFile}
Files ==
    {[size |-> HeaderBytes - ReservedBytes, hdr |-> NoHeader]}
    \cup [size : FileSizes, hdr : Headers]

\* index record fields drawn per tile: payload offset and compressed_size
Offsets == {0, 2 * BigFile}
TileLens == {0, 2, BigTile}

-----------------------------------------------------------------------------
(* CompressionId and its two renderings.                                    *)

CompressionIdFrom(v) ==
    CASE v = 0 -> [tag |-> "None"]
      [] v = 1 -> [tag |-> "Rle"]
      [] v = 2 -> [tag |-> "Lz77"]
      [] v = 3 -> [tag |-> "Delta"]
      [] v = 4 -> [tag |-> "Predictive"]
      [] v = 10 -> [tag |-> "Zstd"]
      [] v = 11 -> [tag |-> "Lz4"]
      [] OTHER -> [tag |-> "Unknown", raw |-> v]

\* a string is the sequence of its formatted pieces
as_str(id) ==
    CASE id.tag = "None" -> <<"None">>
      [] id.tag = "Rle" -> <<"RLE">>
      [] id.tag = "Lz77" -> <<"LZ77">>
      [] id.tag = "Delta" -> <<"Delta">>
      [] id.tag = "Predictive" -> <<"Predictive">>
      [] id.tag = "Zstd" -> <<"Zstd">>
      [] id.tag = "Lz4" -> <<"LZ4">>
      [] id.tag = "Unknown" -> <<"Unknown">>

describe(id) ==
    IF id.tag = "Unknown" THEN <<"Unknown(", id.raw, ")">> ELSE as_str(id)

\* the message of decompress_tile_with_size's `other =>` arm
UnsupportedMsg(id) == <<"Unsupported compression in viewer: ">> \o as_str(id)

-----------------------------------------------------------------------------
(* How a call ends.                                                         *)

Running == [status |-> "running", kind |-> "", msg |-> <<>>, tile |-> -1]
Ok == [status |-> "ok", kind |-> "", msg |-> <<>>, tile |-> -1]
Err(kind, msg, t) == [status |-> "err", kind |-> kind, msg |-> msg, tile |-> t]
Panic(what, t) == [status |-> "panic", kind |-> what, msg |-> <<>>, tile |-> t]

NoGeo == [start_x |-> <<>>, start_y |-> <<>>, tile_w |-> <<>>, tile_h |-> <<>>]
NoneDone == [read |-> {}, decomp |-> {}, crc |-> {}, rct |-> {}, blit |-> {}]

\* debug builds check u32 arithmetic (overflow-checks), release builds wrap
Checked == build = "debug"

End(r) == /\ result' = r
          /\ pc' = "end"

-----------------------------------------------------------------------------
(* blit_tile's arithmetic (cti.rs:233-243), all of it on u32.               *)

\* tx = i % tiles_x, ty = i / tiles_x (cti.rs:124-125); i < total_tiles, so
\* tiles_x is not 0 here
TileXY(idx, tiles_x) ==
    IF NLt(Num(idx), tiles_x) THEN [tx |-> Num(idx), ty |-> Num(0)]
    ELSE [tx |-> Num(idx % Val(tiles_x)), ty |-> Num(idx \div Val(tiles_x))]

BlitGeo(w, h, ts, tx, ty) ==
    LET sx == Mul32(tx, ts)
        sy == Mul32(ty, ts)
        ax == Add32(sx.v, ts)
        ay == Add32(sy.v, ts)
        end_x == NMin(ax.v, w)
        end_y == NMin(ay.v, h)
        tw == Sub32(end_x, sx.v)
        th == Sub32(end_y, sy.v)
    IN  [start_x |-> sx.v, start_y |-> sy.v, tile_w |-> tw.v, tile_h |-> th.v,
         ovf |-> sx.ovf \/ sy.ovf \/ ax.ovf \/ ay.ovf \/ tw.ovf \/ th.ovf]

\* dst_off = ((start_y + row) * w + start_x) * bpp
DstOff(g, w, ts, b, r) ==
    LET y == Add32(g.start_y, Num(r))
        m == Mul32(y.v, w)
        a == Add32(m.v, g.start_x)
        d == Mul32(a.v, Num(b))
    IN  [v |-> d.v, ovf |-> y.ovf \/ m.ovf \/ a.ovf \/ d.ovf]

\* src_off = row * tile_w * bpp
\* (SrcOffTs: the row stride taken as tile_size * bpp)
SrcOffTs(g, ts, b, r) ==
    LET m == Mul32(Num(r), ts)
        d == Mul32(m.v, Num(b))
    IN  [v |-> d.v, ovf |-> m.ovf \/ d.ovf]
SrcOff(g, ts, b, r) ==
    LET m == Mul32(Num(r), g.tile_w)
        d == Mul32(m.v, Num(b))
    IN  [v |-> d.v, ovf |-> m.ovf \/ d.ovf]

\* len = tile_w * bpp
RowLen(g, ts, b) == Mul32(g.tile_w, Num(b))

\* bpp of a colour type, 0 for the `_ => bail!` arm
BppOf(ct) ==
    CASE ct = 1 -> 1
      [] ct = 2 -> 2
      [] ct = 3 -> 3
      [] ct = 4 -> 4
      [] ct = 5 -> 6
      [] OTHER -> 0

\* use_rct (cti.rs:104)
UseRct(h) == h.flags % 2 = 1 /\ h.color_type \in {3, 5}

-----------------------------------------------------------------------------
(* The decoder's steps.                                                     *)

\* CTIDecoder::info: read_header and nothing else
Info ==
    /\ call = "info" /\ pc = "start"
    /\ IF file.size >= HeaderBytes
       THEN hdr' = file.hdr /\ End(Ok)
       ELSE hdr' = hdr /\ End(Err("io", <<"failed to fill whole buffer">>, -1))
    /\ UNCHANGED <<build, file, call, total, nidx, bpp, outLen, i, compLen,
                   tileLen, geo, row, writes, done>>

\* decode_file, cti.rs:86
ReadHeader ==
    /\ call = "decode_file" /\ pc = "start"
    /\ IF file.size >= HeaderBytes
       THEN hdr' = file.hdr /\ pc' = "magic" /\ result' = result
       ELSE hdr' = hdr /\ End(Err("io", <<"failed to fill whole buffer">>, -1))
    /\ UNCHANGED <<build, file, call, total, nidx, bpp, outLen, i, compLen,
                   tileLen, geo, row, writes, done>>

\* cti.rs:87
CheckMagic ==
    /\ pc = "magic"
    /\ IF hdr.magic = "CTI1"
       THEN pc' = "count" /\ result' = result
       ELSE End(Err("bad_magic", <<"Bad magic">>, -1))
    /\ UNCHANGED <<build, file, call, hdr, total, nidx, bpp, outLen, i,
                   compLen, tileLen, geo, row, writes, done>>

\* cti.rs:90
CountTiles ==
    /\ pc = "count"
    /\ LET m == Mul32(hdr.tiles_x, hdr.tiles_y)
       IN  IF m.ovf /\ Checked
           THEN total' = total /\ End(Panic("attempt to multiply with overflow", -1))
           ELSE total' = m.v /\ pc' = "index" /\ result' = result
    /\ UNCHANGED <<build, file, call, hdr, nidx, bpp, outLen, i, compLen,
                   tileLen, geo, row, writes, done>>

\* a count that takes a partial record for a whole one
RecordsInFileRoundedUp ==
    (file.size - HeaderBytes + IndexRecordBytes) \div IndexRecordBytes
\* the complete index records the file holds after its header
RecordsInFile == (file.size - HeaderBytes) \div IndexRecordBytes

\* a decoder that resolves the colour type before it reads the index
ReadIndicesAfterColour ==
    /\ pc = "index"
    /\ IF BppOf(hdr.color_type) = 0
       THEN nidx' = nidx
            /\ End(Err("unsupported_color",
                       <<"Unsupported color type id ", hdr.color_type>>, -1))
       ELSE IF NLe(total, Num(RecordsInFile))
       THEN nidx' = Val(total) /\ pc' = "bpp" /\ result' = result
       ELSE nidx' = nidx /\ End(Err("io", <<"failed to fill whole buffer">>, -1))
    /\ UNCHANGED <<build, file, call, hdr, total, bpp, outLen, i, compLen,
                   tileLen, geo, row, writes, done>>

\* cti.rs:91, read_indices
ReadIndices ==
    /\ pc = "index"
    /\ IF NLe(total, Num(RecordsInFile))
       THEN nidx' = Val(total) /\ pc' = "bpp" /\ result' = result
       ELSE nidx' = nidx /\ End(Err("io", <<"failed to fill whole buffer">>, -1))
    /\ UNCHANGED <<build, file, call, hdr, total, bpp, outLen, i, compLen,
                   tileLen, geo, row, writes, done>>

\* cti.rs:94-101
ResolveBpp ==
    /\ pc = "bpp"
    /\ IF BppOf(hdr.color_type) # 0
       THEN bpp' = BppOf(hdr.color_type) /\ pc' = "alloc" /\ result' = result
       ELSE bpp' = bpp
            /\ End(Err("unsupported_color",
                       <<"Unsupported color type id ", hdr.color_type>>, -1))
    /\ UNCHANGED <<build, file, call, hdr, total, nidx, outLen, i, compLen,
                   tileLen, geo, row, writes, done>>

\* cti.rs:103: vec![0u8; (hdr.width * hdr.height * bpp) as usize]
OutLen(h, b) ==
    LET m == Mul32(h.width, h.height)
        n == Mul32(m.v, Num(b))
    IN  [v |-> n.v, ovf |-> m.ovf \/ n.ovf]

AllocOut ==
    /\ pc = "alloc"
    /\ LET n == OutLen(hdr, bpp)
       IN  IF n.ovf /\ Checked
           THEN outLen' = outLen /\ End(Panic("attempt to multiply with overflow", -1))
           ELSE outLen' = n.v /\ pc' = "tile" /\ result' = result
    /\ UNCHANGED <<build, file, call, hdr, total, nidx, bpp, i, compLen,
                   tileLen, geo, row, writes, done>>

\* cti.rs:109-111: seek to t.offset, read_exact t.compressed_size bytes
SeekRead ==
    /\ pc = "tile" /\ i < nidx
    /\ \E off \in Offsets, csize \in TileLens :
         /\ done' = [done EXCEPT !.read = @ \cup {i}]
         /\ IF csize = 0 \/ off + csize <= file.size
            THEN compLen' = csize /\ pc' = "decompress" /\ result' = result
            ELSE compLen' = compLen
                 /\ End(Err("io", <<"failed to fill whole buffer">>, i))
    /\ UNCHANGED <<build, file, call, hdr, total, nidx, bpp, outLen, i,
                   tileLen, geo, row, writes>>

\* cti.rs:113, decompress_tile_with_size (cti.rs:250-259); what zstd and
\* lz4_flex return is the libraries' answer to the payload bytes
Decompress ==
    /\ pc = "decompress"
    /\ LET id == CompressionIdFrom(hdr.compression)
       IN  \E libOk \in BOOLEAN, n \in TileLens :
             CASE id.tag = "None" ->
                    /\ tileLen' = compLen /\ pc' = "crc" /\ result' = result
                    /\ done' = [done EXCEPT !.decomp = @ \cup {i}]
               [] id.tag \in {"Zstd", "Lz4"} ->
                    IF libOk
                    THEN /\ tileLen' = n /\ pc' = "crc" /\ result' = result
                         /\ done' = [done EXCEPT !.decomp = @ \cup {i}]
                    ELSE /\ tileLen' = tileLen /\ done' = done
                         /\ End(Err("decompress",
                                    IF id.tag = "Zstd"
                                    THEN <<"zstd decompress failed: ">>
                                    ELSE <<"lz4 decompress failed">>, i))
               [] OTHER ->
                    /\ tileLen' = tileLen /\ done' = done
                    /\ End(Err("unsupported_compression", UnsupportedMsg(id), i))
    /\ UNCHANGED <<build, file, call, hdr, total, nidx, bpp, outLen, i,
                   compLen, geo, row, writes>>

\* a decoder that goes on with a tile whose checksum does not match
CrcCheckLenient ==
    /\ pc = "crc"
    /\ \E match \in BOOLEAN :
         /\ done' = IF match THEN [done EXCEPT !.crc = @ \cup {i}] ELSE done
         /\ pc' = "rct" /\ result' = result
    /\ UNCHANGED <<build, file, call, hdr, total, nidx, bpp, outLen, i,
                   compLen, tileLen, geo, row, writes>>
\* cti.rs:114; whether the CRC of the tile equals t.crc32 is the file's content
CrcCheck ==
    /\ pc = "crc"
    /\ \E match \in BOOLEAN :
         IF match
         THEN /\ done' = [done EXCEPT !.crc = @ \cup {i}]
              /\ pc' = "rct" /\ result' = result
         ELSE /\ done' = done
              /\ End(Err("crc", <<"CRC mismatch at tile ", i>>, i))
    /\ UNCHANGED <<build, file, call, hdr, total, nidx, bpp, outLen, i,
                   compLen, tileLen, geo, row, writes>>

\* cti.rs:116-122
InverseTransform ==
    /\ pc = "rct"
    /\ done' = IF UseRct(hdr) THEN [done EXCEPT !.rct = @ \cup {i}] ELSE done
    /\ pc' = "blit"
    /\ UNCHANGED <<build, file, call, hdr, total, nidx, bpp, outLen, i,
                   compLen, tileLen, geo, row, writes, result>>

\* cti.rs:124-126 and blit_tile's prologue, cti.rs:233-238
BlitBegin ==
    /\ pc = "blit"
    /\ LET t == TileXY(i, hdr.tiles_x)
           g == BlitGeo(hdr.width, hdr.height, hdr.tile_size, t.tx, t.ty)
       IN  IF g.ovf /\ Checked
           THEN geo' = geo /\ End(Panic("arithmetic overflow in blit_tile", i))
           ELSE /\ geo' = [start_x |-> g.start_x, start_y |-> g.start_y,
                           tile_w |-> g.tile_w, tile_h |-> g.tile_h]
                /\ pc' = "row" /\ result' = result
    /\ row' = 0
    /\ UNCHANGED <<build, file, call, hdr, total, nidx, bpp, outLen, i,
                   compLen, tileLen, writes, done>>

\* one iteration of cti.rs:240-245
BlitRow ==
    /\ pc = "row" /\ NLt(Num(row), geo.tile_h)
    /\ LET d == DstOff(geo, hdr.width, hdr.tile_size, bpp, row)
           s == SrcOff(geo, hdr.tile_size, bpp, row)
           l == RowLen(geo, hdr.tile_size, bpp)
       IN  IF (d.ovf \/ s.ovf \/ l.ovf) /\ Checked
           THEN /\ End(Panic("arithmetic overflow in blit_tile", i))
                /\ UNCHANGED <<row, writes>>
           ELSE IF NLt(outLen, NAdd(d.v, l.v))
           THEN /\ End(Panic("range end index out of range for out", i))
                /\ UNCHANGED <<row, writes>>
           ELSE IF NLt(Num(tileLen), NAdd(s.v, l.v))
           THEN /\ End(Panic("range end index out of range for tile", i))
                /\ UNCHANGED <<row, writes>>
           ELSE /\ writes' = Append(writes, [tile |-> i, row |-> row, dst |-> d.v,
                                             src |-> s.v, len |-> l.v])
                /\ row' = row + 1
                /\ UNCHANGED <<pc, result>>
    /\ UNCHANGED <<build, file, call, hdr, total, nidx, bpp, outLen, i,
                   compLen, tileLen, geo, done>>

\* blit_tile returns Ok(()) and the loop of cti.rs:108 goes on
BlitEnd ==
    /\ pc = "row" /\ ~NLt(Num(row), geo.tile_h)
    /\ done' = [done EXCEPT !.blit = @ \cup {i}]
    /\ i' = i + 1
    /\ pc' = "tile"
    /\ UNCHANGED <<build, file, call, hdr, total, nidx, bpp, outLen, compLen,
                   tileLen, geo, row, writes, result>>

\* cti.rs:138
Return ==
    /\ pc = "tile" /\ i = nidx
    /\ End(Ok)
    /\ UNCHANGED <<build, file, call, hdr, total, nidx, bpp, outLen, i,
                   compLen, tileLen, geo, row, writes, done>>

DecoderIdle ==
    /\ build = "release" /\ file = [size |-> 0, hdr |-> NoHeader]
    /\ call = "none" /\ pc = "end" /\ hdr = NoHeader /\ total = <<>>
    /\ nidx = 0 /\ bpp = 0 /\ outLen = <<>> /\ i = 0 /\ compLen = 0
    /\ tileLen = 0 /\ geo = NoGeo /\ row = 0 /\ writes = <<>>
    /\ done = NoneDone /\ result = Running
RctIdle == rctKind = "" /\ rctOrig = <<>> /\ rctBuf = <<>> /\ rctPc = "end"
AppIdle == app = <<>> /\ loads = <<>>

\* info does no arithmetic, so it is run under one build only
Runs == {<<"info", "release">>, <<"decode_file", "debug">>,
         <<"decode_file", "release">>}

Init ==
    /\ file \in Files
    /\ \E r \in Runs : call = r[1] /\ build = r[2]
    /\ pc = "start" /\ hdr = NoHeader /\ total = <<>> /\ nidx = 0 /\ bpp = 0
    /\ outLen = <<>> /\ i = 0 /\ compLen = 0 /\ tileLen = 0 /\ geo = NoGeo
    /\ row = 0 /\ writes = <<>> /\ done = NoneDone /\ result = Running
    /\ RctIdle /\ AppIdle

Next ==
    \/ (Info /\ UNCHANGED <<rvars, avars>>)
    \/ (ReadHeader /\ UNCHANGED <<rvars, avars>>)
    \/ (CheckMagic /\ UNCHANGED <<rvars, avars>>)
    \/ (CountTiles /\ UNCHANGED <<rvars, avars>>)
    \/ (ReadIndices /\ UNCHANGED <<rvars, avars>>)
    \/ (ResolveBpp /\ UNCHANGED <<rvars, avars>>)
    \/ (AllocOut /\ UNCHANGED <<rvars, avars>>)
    \/ (SeekRead /\ UNCHANGED <<rvars, avars>>)
    \/ (Decompress /\ UNCHANGED <<rvars, avars>>)
    \/ (CrcCheck /\ UNCHANGED <<rvars, avars>>)
    \/ (InverseTransform /\ UNCHANGED <<rvars, avars>>)
    \/ (BlitBegin /\ UNCHANGED <<rvars, avars>>)
    \/ (BlitRow /\ UNCHANGED <<rvars, avars>>)
    \/ (BlitEnd /\ UNCHANGED <<rvars, avars>>)
    \/ (Return /\ UNCHANGED <<rvars, avars>>)

Spec == Init /\ [][Next]_vars
-----------------------------------------------------------------------------
(* Properties of decode_file and blit_tile (Spec).                          *)

Decoding == call = "decode_file"
UpTo(n) == 0..(n - 1)
TilesWritten == {writes[k].tile : k \in DOMAIN writes}
RowsOf(t) == {k \in DOMAIN writes : writes[k].tile = t}

\* the grid position and the exact (unbounded) geometry of tile t
Pos(t) == TileXY(t, hdr.tiles_x)
OriginX(t) == NMul(Pos(t).tx, hdr.tile_size)
OriginY(t) == NMul(Pos(t).ty, hdr.tile_size)
OriginInside(t) == NLt(OriginX(t), hdr.width) /\ NLt(OriginY(t), hdr.height)
ClipW(t) == NMin(hdr.tile_size, NSub(hdr.width, OriginX(t)))
ClipH(t) == NMin(hdr.tile_size, NSub(hdr.height, OriginY(t)))
ExactDst(t, r) ==
    NMul(NAdd(NMul(NAdd(OriginY(t), Num(r)), hdr.width), OriginX(t)), Num(bpp))

\* C1: decode_file is all-or-nothing and strictly ordered.  Tiles go through
\* read, decompress, CRC check, (optional) inverse transform and blit one at
\* a time in index order; the first tile whose read, decompression or CRC
\* check fails ends the call with an error, that tile is not blitted and no
\* later tile is read; the call returns Ok only when every tile of the index
\* passed its CRC check and was blitted.
C1_AllOrNothingInOrder ==
    Decoding =>
      /\ done.blit \subseteq done.crc /\ done.rct \subseteq done.crc
      /\ done.crc \subseteq done.decomp /\ done.decomp \subseteq done.read
      /\ (UseRct(hdr) => done.blit \subseteq done.rct)
      /\ done.blit = UpTo(i)
      /\ done.read \in {UpTo(i), UpTo(i + 1)}
      /\ TilesWritten \subseteq (done.crc \cap done.read)
      /\ (UseRct(hdr) => TilesWritten \subseteq done.rct)
      /\ \A k \in DOMAIN writes : k > 1 => writes[k - 1].tile <= writes[k].tile
      /\ (result.status # "running" => pc = "end")
      /\ (result.status = "err" /\ result.tile >= 0 =>
            /\ result.kind \in {"io", "decompress", "unsupported_compression", "crc"}
            /\ result.tile = i
            /\ i \notin done.blit /\ i \notin TilesWritten /\ i \notin done.crc
            /\ done.read = UpTo(i + 1))
      /\ (result.status = "ok" =>
            /\ done.crc = UpTo(nidx) /\ done.blit = UpTo(nidx)
            /\ done.read = UpTo(nidx))

\* C1 witness: the second tile fails its CRC check after the first was blitted
C1_Witness ==
    /\ Decoding /\ result.status = "err" /\ result.kind = "crc"
    /\ result.tile = 1 /\ done.blit = {0} /\ writes # <<>>

\* C2 (as claimed): an unrecognised compression byte v fails with a message
\* that carries the raw value, "Unknown(v)"
C2_UnknownCarriesValue ==
    (Decoding /\ result.kind = "unsupported_compression"
       /\ CompressionIdFrom(hdr.compression).tag = "Unknown")
    => result.msg = <<"Unsupported compression in viewer: ">>
                      \o describe(CompressionIdFrom(hdr.compression))

EndsAfterHeader == file.size = HeaderBytes
Finished == pc = "end" /\ result.status # "running"
TileProduct == NMul(file.hdr.tiles_x, file.hdr.tiles_y)

\* C3 (as claimed): on every file that ends right after the reserved header
\* bytes info succeeds with the header and decode_file fails with an I/O error
C3_TruncatedAlwaysIoError ==
    (EndsAfterHeader /\ Finished) =>
      /\ (call = "info" => result.status = "ok" /\ hdr = file.hdr)
      /\ (Decoding => result.status = "err" /\ result.kind = "io")

\* C3 (amended): on every file that ends right after the reserved header
\* bytes info succeeds with the header; decode_file fails with an I/O error
\* when the magic is CTI1 and 1 <= tiles_x*tiles_y < 2^32, with the bad-magic
\* error when the magic is wrong, and never with an I/O error when
\* tiles_x*tiles_y = 0 (it returns Ok for a known colour type whose buffer
\* size fits in 32 bits)
C3_TruncatedProbeAndDecode ==
    (EndsAfterHeader /\ Finished) =>
      /\ (call = "info" => result.status = "ok" /\ hdr = file.hdr)
      /\ (Decoding /\ file.hdr.magic # "CTI1" =>
            result.status = "err" /\ result.kind = "bad_magic")
      /\ (Decoding /\ file.hdr.magic = "CTI1" /\ TileProduct # <<>>
            /\ Fits32(TileProduct) =>
            result.status = "err" /\ result.kind = "io")
      /\ (Decoding /\ file.hdr.magic = "CTI1" /\ TileProduct = <<>> =>
            /\ result.kind # "io"
            /\ (BppOf(hdr.color_type) # 0 /\ ~OutLen(hdr, BppOf(hdr.color_type)).ovf
                  => result.status = "ok"))

\* C3 witness: decode_file hits the end of file reading the index of a file
\* that ends after the header
C3_Witness ==
    /\ EndsAfterHeader /\ Decoding /\ Finished /\ hdr.magic = "CTI1"
    /\ result.kind = "io" /\ BppOf(hdr.color_type) # 0

\* C4 (as claimed): row r of the tile at (tx, ty) is read from source offset
\* r * tile_size * bpp and written to ((ty*tile_size + r) * width + tx*tile_size) * bpp
C4_SourceStrideIsTileSize ==
    Decoding =>
      \A k \in DOMAIN writes :
        LET c == writes[k] IN
          /\ c.src = NMul(NMul(Num(c.row), hdr.tile_size), Num(bpp))
          /\ c.dst = ExactDst(c.tile, c.row)

\* the effective width blit_tile computes, in wrapping 32-bit arithmetic
WrappedOriginX(t) == Wrap32(OriginX(t))
WrappedClipW(t) ==
    Sub32(NMin(Wrap32(NAdd(WrappedOriginX(t), hdr.tile_size)), hdr.width),
          WrappedOriginX(t)).v

\* C4 (amended): row r of the tile at (tx, ty) is read from source offset
\* r * tile_w * bpp, tile_w = min(tx*tile_size + tile_size, width) - tx*tile_size
\* being the tile's effective (clipped) width, and written to
\* ((ty*tile_size + r) * width + tx*tile_size) * bpp, both taken modulo 2^32;
\* where nothing exceeds 32 bits and the tile starts inside the image the
\* source offset is r * min(tile_size, width - tx*tile_size) * bpp
C4_SourceStrideIsClippedWidth ==
    Decoding =>
      \A k \in DOMAIN writes :
        LET c == writes[k] IN
          /\ c.src = Wrap32(NMul(NMul(Num(c.row), WrappedClipW(c.tile)), Num(bpp)))
          /\ c.dst = Wrap32(ExactDst(c.tile, c.row))
          /\ (OriginInside(c.tile) /\ Fits32(NAdd(OriginX(c.tile), hdr.tile_size))
                /\ Fits32(NMul(NMul(hdr.width, hdr.height), Num(bpp)))
              => c.src = NMul(NMul(Num(c.row), ClipW(c.tile)), Num(bpp)))

\* C4 witness: a row below the first of an edge tile narrower than tile_size
\* has been copied
C4_Witness ==
    /\ Decoding
    /\ \E k \in DOMAIN writes :
         /\ writes[k].row >= 1 /\ Pos(writes[k].tile).tx # <<>>
         /\ OriginInside(writes[k].tile)
         /\ NLt(ClipW(writes[k].tile), hdr.tile_size)
         /\ writes[k].len # <<>>

\* C5 (as claimed): for a tile whose origin is inside the image blit_tile
\* writes exactly the clipped rectangle, min(tile_size, width - origin_x)
\* columns by min(tile_size, height - origin_y) rows at the tile's place in
\* the image, and no other byte of the output
C5_WritesExactlyClippedRect ==
    Decoding =>
      /\ \A k \in DOMAIN writes :
           LET c == writes[k] IN
             OriginInside(c.tile) =>
               /\ NLt(Num(c.row), ClipH(c.tile))
               /\ c.dst = ExactDst(c.tile, c.row)
               /\ c.len = NMul(ClipW(c.tile), Num(bpp))
      /\ \A t \in done.blit :
           OriginInside(t) => Num(Cardinality(RowsOf(t))) = ClipH(t)

\* the same statement for the images whose sizes and offsets all fit in 32 bits
C5_HoldsWithin32Bits ==
    Fits32(NMul(NMul(hdr.width, hdr.height), Num(bpp)))
      /\ (\A t \in UpTo(nidx) : Fits32(NAdd(OriginX(t), hdr.tile_size))
                                /\ Fits32(NAdd(OriginY(t), hdr.tile_size)))
    => C5_WritesExactlyClippedRect

\* C7 (as claimed): a successful decode_file returns a buffer of exactly
\* width * height * bpp bytes and has read exactly tiles_x * tiles_y records
C7_SizesAreExactProducts ==
    (Decoding /\ result.status = "ok") =>
      /\ outLen = NMul(NMul(hdr.width, hdr.height), Num(bpp))
      /\ Num(nidx) = NMul(hdr.tiles_x, hdr.tiles_y)

IndexReadable == NLe(Wrap32(TileProduct), Num(RecordsInFile))

\* C8 (as claimed): bpp is resolved before the index is read, so correct
\* magic and an unknown colour type give the unsupported-colour error whatever
\* the state of the index; wrong magic gives bad-magic before the index is read
C8_ColourBeforeIndex ==
    (Decoding /\ Finished /\ file.size >= HeaderBytes) =>
      /\ (hdr.magic = "CTI1" /\ BppOf(hdr.color_type) = 0 =>
            result.status = "err" /\ result.kind = "unsupported_color")
      /\ (hdr.magic # "CTI1" =>
            result.kind = "bad_magic" /\ total = <<>> /\ done.read = {})

\* C8 (amended): the order is read header -> validate magic -> count and read
\* the tile index -> resolve bpp.  With correct magic and an unknown colour
\* type decode_file fails with the unsupported-colour error only when the
\* whole index can be read, with an I/O error when the index is truncated or
\* absent (and an overflow-checked build panics when tiles_x*tiles_y exceeds
\* 32 bits); wrong magic fails with bad-magic before the index or a tile is read
C8_IndexBeforeColour ==
    /\ (pc \in {"bpp", "alloc"} => hdr.magic = "CTI1" /\ IndexReadable)
    /\ ((Decoding /\ Finished /\ file.size >= HeaderBytes) =>
          /\ (hdr.magic = "CTI1" /\ BppOf(hdr.color_type) = 0 =>
                IF ~Fits32(TileProduct) /\ Checked
                THEN result.status = "panic"
                ELSE IF IndexReadable
                THEN result.status = "err" /\ result.kind = "unsupported_color"
                ELSE result.status = "err" /\ result.kind = "io")
          /\ (hdr.magic # "CTI1" =>
                result.kind = "bad_magic" /\ total = <<>> /\ done.read = {}))

\* C8 witness: correct magic, unknown colour type, truncated index: I/O error
C8_Witness ==
    /\ Decoding /\ Finished /\ hdr.magic = "CTI1" /\ BppOf(hdr.color_type) = 0
    /\ ~IndexReadable /\ result.kind = "io"

Overlap(a, b) ==
    /\ a.len # <<>> /\ b.len # <<>>
    /\ NLt(a.dst, NAdd(b.dst, b.len)) /\ NLt(b.dst, NAdd(a.dst, a.len))

\* C9 (as claimed): within one decode_file call the byte ranges written by
\* two distinct tiles are disjoint and every write lies inside the buffer
C9_TileWritesDisjoint ==
    Decoding =>
      /\ \A k \in DOMAIN writes : NLe(NAdd(writes[k].dst, writes[k].len), outLen)
      /\ \A j, k \in DOMAIN writes :
           writes[j].tile # writes[k].tile => ~Overlap(writes[j], writes[k])

-----------------------------------------------------------------------------
(* The reversible colour transform (SpecRct).  A buffer is a sequence of    *)
(* bytes; rctOrig is the (R, G, B) pixel it was made from.                  *)

\* u16::to_le_bytes / u16::from_le_bytes
ToLe16(n) == <<n % 256, n \div 256>>
FromLe16(b) == b[1] + 256 * b[2]

\* `as i8`, `as i16`: the two's-complement reading of an unsigned value
AsI8(u) == IF u >= 128 THEN u - 256 ELSE u
AsI16(u) == IF u >= 32768 THEN u - 65536 ELSE u

Clamp(x, lo, hi) == IF x < lo THEN lo ELSE IF x > hi THEN hi ELSE x

\* `>> 2` on i32 is an arithmetic shift: the floor of a quarter
Shr2(x) == x \div 4

\* the body shared by the two loops, cti.rs:266-268 and cti.rs:279-281
InverseRgb(y, cb, cr) ==
    LET g == y - Shr2(cb + cr)
    IN  [r |-> cr + g, g |-> g, b |-> cb + g]

RECURSIVE rct_inverse_rgb8(_)
rct_inverse_rgb8(buf) ==
    IF Len(buf) < 3 THEN buf
    ELSE LET p == InverseRgb(buf[1], AsI8(buf[2]), AsI8(buf[3]))
         IN  <<Clamp(p.r, 0, 255), Clamp(p.g, 0, 255), Clamp(p.b, 0, 255)>>
             \o rct_inverse_rgb8(SubSeq(buf, 4, Len(buf)))

RECURSIVE rct_inverse_rgb16(_)
rct_inverse_rgb16(buf) ==
    IF Len(buf) < 6 THEN buf
    ELSE LET p == InverseRgb(FromLe16(SubSeq(buf, 1, 2)),
                             AsI16(FromLe16(SubSeq(buf, 3, 4))),
                             AsI16(FromLe16(SubSeq(buf, 5, 6))))
         IN  ToLe16(Clamp(p.r, 0, 65535)) \o ToLe16(Clamp(p.g, 0, 65535))
             \o ToLe16(Clamp(p.b, 0, 65535))
             \o rct_inverse_rgb16(SubSeq(buf, 7, Len(buf)))

\* The encoder's side, which this repository does not hold: the forward
\* transform of spec.md section 8, Y = (R + 2G + B) >> 2, Cb = B - G,
\* Cr = R - G, each kept in one channel of the pixel's width (Cb and Cr in
\* two's complement).
ForwardRgb(px) ==
    [y |-> (px[1] + 2 * px[2] + px[3]) \div 4, cb |-> px[3] - px[2],
     cr |-> px[1] - px[2]]
Encode8(px) ==
    LET f == ForwardRgb(px) IN <<f.y, f.cb % 256, f.cr % 256>>
Encode16(px) ==
    LET f == ForwardRgb(px)
    IN  ToLe16(f.y) \o ToLe16(f.cb % 65536) \o ToLe16(f.cr % 65536)

Raw8(px) == px
Raw16(px) == ToLe16(px[1]) \o ToLe16(px[2]) \o ToLe16(px[3])

\* channel values tried: the ends, the middle and a few around them
Samples8 == {0, 1, 2, 3, 100, 127, 128, 129, 254, 255}
Samples16 == {0, 1, 2, 3, 255, 256, 32767, 32768, 65534, 65535}
\* bytes after the last whole pixel (chunks_exact_mut leaves them alone)
Tails == {<<>>, <<7>>}

RctInit ==
    /\ rctKind \in {"rgb8", "rgb16"}
    /\ \E r, g, b \in Samples8 \cup Samples16, t \in Tails :
         /\ {r, g, b} \subseteq (IF rctKind = "rgb8" THEN Samples8 ELSE Samples16)
         /\ rctOrig = <<r, g, b>>
         /\ rctBuf = (IF rctKind = "rgb8" THEN Raw8(<<r, g, b>>)
                      ELSE Raw16(<<r, g, b>>)) \o t
    /\ rctPc = "rgb"

PixelBytes == IF rctKind = "rgb8" THEN 3 ELSE 6
TailOf(buf) == SubSeq(buf, PixelBytes + 1, Len(buf))

\* the encoder applies the forward transform to the pixel
ForwardTransform ==
    /\ rctPc = "rgb"
    /\ rctBuf' = (IF rctKind = "rgb8" THEN Encode8(rctOrig) ELSE Encode16(rctOrig))
                 \o TailOf(rctBuf)
    /\ rctPc' = "ycc"
    /\ UNCHANGED <<rctKind, rctOrig>>

\* cti.rs:118
RctInverse8 ==
    /\ rctPc = "ycc" /\ rctKind = "rgb8"
    /\ rctBuf' = rct_inverse_rgb8(rctBuf)
    /\ rctPc' = "decoded"
    /\ UNCHANGED <<rctKind, rctOrig>>

\* cti.rs:119
RctInverse16 ==
    /\ rctPc = "ycc" /\ rctKind = "rgb16"
    /\ rctBuf' = rct_inverse_rgb16(rctBuf)
    /\ rctPc' = "decoded"
    /\ UNCHANGED <<rctKind, rctOrig>>

InitRct == DecoderIdle /\ RctInit /\ AppIdle
NextRct ==
    \/ (ForwardTransform /\ UNCHANGED <<dvars, avars>>)
    \/ (RctInverse8 /\ UNCHANGED <<dvars, avars>>)
    \/ (RctInverse16 /\ UNCHANGED <<dvars, avars>>)
SpecRct == InitRct /\ [][NextRct]_vars

DecodedPixel ==
    IF rctKind = "rgb8" THEN SubSeq(rctBuf, 1, 3)
    ELSE <<FromLe16(SubSeq(rctBuf, 1, 2)), FromLe16(SubSeq(rctBuf, 3, 4)),
           FromLe16(SubSeq(rctBuf, 5, 6))>>

\* C6 (as claimed): for every in-range (R, G, B) the forward transform
\* followed by rct_inverse_rgb8 / rct_inverse_rgb16 gives back (R, G, B)
C6_RoundTripExact ==
    rctPc = "decoded" => DecodedPixel = rctOrig

ChromaFits ==
    LET half == IF rctKind = "rgb8" THEN 128 ELSE 32768
        f == ForwardRgb(rctOrig)
    IN  /\ -half <= f.cb /\ f.cb < half
        /\ -half <= f.cr /\ f.cr < half

\* the round trip is exact exactly for the pixels whose B - G and R - G fit
\* the signed channel
C6_RoundTripWhenChromaFits ==
    rctPc = "decoded" => (ChromaFits => DecodedPixel = rctOrig)

-----------------------------------------------------------------------------
(* The viewer (SpecApp): App's fields under the Open button, which runs     *)
(* load_cti, and the other toolbar handlers.                                *)

MaxLoads == 3
MaxZoomDen == 100

\* Option<T>: None is the empty sequence, Some(x) the sequence of x alone
None == <<>>
Some(x) == <<x>>

\* What the decoder answers for the files the user can pick: whether info
\* and decode_file succeed, and the header they return.  decode_file returns
\* Ok for the colour types 1..5 only (ResolveBpp).
PreviewHdr(w, h, ct) == [width |-> w, height |-> h, color_type |-> ct]
Disk ==
    [p \in {"l8.cti", "l16.cti", "rgb8.cti", "rgba8.cti", "rgb16.cti",
            "badcrc.cti", "cut.cti"} |->
        CASE p = "l8.cti" -> [info |-> TRUE, decode |-> TRUE, hdr |-> PreviewHdr(2, 3, 1)]
          [] p = "l16.cti" -> [info |-> TRUE, decode |-> TRUE, hdr |-> PreviewHdr(3, 3, 2)]
          [] p = "rgb8.cti" -> [info |-> TRUE, decode |-> TRUE, hdr |-> PreviewHdr(10, 10, 3)]
          [] p = "rgba8.cti" -> [info |-> TRUE, decode |-> TRUE, hdr |-> PreviewHdr(4, 4, 4)]
          [] p = "rgb16.cti" -> [info |-> TRUE, decode |-> TRUE, hdr |-> PreviewHdr(2, 1, 5)]
          [] p = "badcrc.cti" -> [info |-> TRUE, decode |-> FALSE, hdr |-> PreviewHdr(5, 5, 3)]
          [] p = "cut.cti" -> [info |-> FALSE, decode |-> FALSE, hdr |-> PreviewHdr(0, 0, 0)]]
Paths == DOMAIN Disk

\* zoom is an f32; it is held as the exact fraction <<numerator, denominator>>
RECURSIVE Gcd(_, _)
Gcd(a, b) == IF b = 0 THEN a ELSE Gcd(b, a % b)
Frac(n, d) == LET g == Gcd(n, d) IN IF g = 0 THEN <<0, 1>> ELSE <<n \div g, d \div g>>
FracLt(a, b) == a[1] * b[2] < b[1] * a[2]
FracMul(a, b) == Frac(a[1] * b[1], a[2] * b[2])
FracMax(a, b) == IF FracLt(a, b) THEN b ELSE a
FracMin(a, b) == IF FracLt(b, a) THEN b ELSE a
\* f32::clamp(0.05, 50.0)
Clamp3(z) == FracMin(FracMax(z, <<1, 20>>), <<50, 1>>)

\* #[derive(Default)] for App, main.rs:24-37
AppDefault ==
    [image_tex |-> None, image_size |-> None, last_path |-> None,
     zoom |-> <<0, 1>>, fit_to_window |-> FALSE, show_info |-> FALSE,
     last_hdr |-> None]

\* App::load_cti, main.rs:184-242: the App it leaves and whether it returned Ok.
\* A texture is named by the file its pixels came from.
load_cti(a, path) ==
    LET f == Disk[path] IN
    IF ~f.info THEN [app |-> a, ok |-> FALSE]
    ELSE IF ~f.decode THEN [app |-> a, ok |-> FALSE]
    ELSE LET a1 == [a EXCEPT !.last_hdr = Some(f.hdr)] IN
         IF f.hdr.color_type \in {1, 3, 4}
         THEN [app |-> [a1 EXCEPT !.image_tex = Some(path),
                                   !.image_size = Some(<<f.hdr.width, f.hdr.height>>),
                                   !.zoom = <<1, 1>>,
                                   !.fit_to_window = TRUE],
               ok |-> TRUE]
         ELSE [app |-> a1, ok |-> FALSE]

\* the Open button with a file picked, main.rs:44-62
Open ==
    /\ Len(loads) < MaxLoads
    /\ \E path \in Paths :
         LET r == load_cti(app, path) IN
           /\ app' = IF r.ok THEN [r.app EXCEPT !.last_path = Some(path)] ELSE r.app
           /\ loads' = Append(loads, [path |-> path, ok |-> r.ok])

\* main.rs:64-69
InfoButton ==
    /\ app.image_tex # None
    /\ app' = [app EXCEPT !.show_info = TRUE]
    /\ UNCHANGED loads

\* the close box of the Info window, main.rs:149
InfoClose ==
    /\ app.show_info
    /\ app' = [app EXCEPT !.show_info = FALSE]
    /\ UNCHANGED loads

\* main.rs:74-79
FitButton ==
    /\ app.image_tex # None
    /\ app' = [app EXCEPT !.fit_to_window = TRUE]
    /\ UNCHANGED loads

\* main.rs:82-88
OneToOneButton ==
    /\ app.image_tex # None
    /\ app' = [app EXCEPT !.fit_to_window = FALSE, !.zoom = <<1, 1>>]
    /\ UNCHANGED loads

\* main.rs:93-99
ZoomOutButton ==
    /\ app.image_tex # None /\ app.zoom[2] < MaxZoomDen
    /\ app' = [app EXCEPT !.fit_to_window = FALSE,
                          !.zoom = FracMax(FracMul(@, <<9, 10>>), <<1, 20>>)]
    /\ UNCHANGED loads

\* main.rs:100-106
ZoomInButton ==
    /\ app.image_tex # None /\ app.zoom[2] < MaxZoomDen
    /\ app' = [app EXCEPT !.fit_to_window = FALSE,
                          !.zoom = FracMin(FracMul(@, <<11, 10>>), <<50, 1>>)]
    /\ UNCHANGED loads

\* Cmd/Ctrl+0, main.rs:112-115
ResetShortcut ==
    /\ app' = [app EXCEPT !.fit_to_window = FALSE, !.zoom = <<1, 1>>]
    /\ UNCHANGED loads

\* the scroll wheel, main.rs:118-123
ScrollZoom ==
    /\ app.image_tex # None /\ app.zoom[2] < MaxZoomDen
    /\ \E factor \in {<<11, 10>>, <<9, 10>>} :
         app' = [app EXCEPT !.fit_to_window = FALSE,
                            !.zoom = Clamp3(FracMul(@, factor))]
    /\ UNCHANGED loads

InitApp == DecoderIdle /\ RctIdle /\ app = AppDefault /\ loads = <<>>
NextApp ==
    \/ (Open /\ UNCHANGED <<dvars, rvars>>)
    \/ (InfoButton /\ UNCHANGED <<dvars, rvars>>)
    \/ (InfoClose /\ UNCHANGED <<dvars, rvars>>)
    \/ (FitButton /\ UNCHANGED <<dvars, rvars>>)
    \/ (OneToOneButton /\ UNCHANGED <<dvars, rvars>>)
    \/ (ZoomOutButton /\ UNCHANGED <<dvars, rvars>>)
    \/ (ZoomInButton /\ UNCHANGED <<dvars, rvars>>)
    \/ (ResetShortcut /\ UNCHANGED <<dvars, rvars>>)
    \/ (ScrollZoom /\ UNCHANGED <<dvars, rvars>>)
SpecApp == InitApp /\ [][NextApp]_vars

\* the file whose pixels are on screen
Displayed == app.image_tex

\* C10 (as claimed): whatever loads succeeded or failed, last_hdr, last_path
\* and image_size describe the file whose image is displayed (the last one
\* loaded successfully), so the Info popup, which can be opened once an image
\* is displayed, shows the header of that image; with no image displayed
\* there is no path and no size
C10_InfoDescribesDisplayedImage ==
    IF Displayed = None
    THEN app.last_path = None /\ app.image_size = None
    ELSE /\ app.last_hdr = Some(Disk[Displayed[1]].hdr)
         /\ app.last_path = Displayed
         /\ app.image_size = Some(<<Disk[Displayed[1]].hdr.width,
                                 Disk[Displayed[1]].hdr.height>>)

\* what does hold: last_path and image_size describe the displayed image
C10_PathAndSizeDescribeDisplayedImage ==
    IF Displayed = None
    THEN app.last_path = None /\ app.image_size = None
    ELSE /\ app.last_path = Displayed
         /\ app.image_size = Some(<<Disk[Displayed[1]].hdr.width,
                                 Disk[Displayed[1]].hdr.height>>)

====
